---- MODULE Spec2Model ----
(***************************************************************************)
(* Model of src/src/main_engine.py (class BIPolicyOptimizer): the regional *)
(* dataset, the quartile-based quadrant classifier, the correlation        *)
(* interpretation bands, the statistical power rating, the two pure        *)
(* sentiment functions (pillar risk, response tier), the sentiment         *)
(* monitor step by step, and the life cycle of one optimizer object        *)
(* (load, analyze, monitor, recommend, export, report).                    *)
(*                                                                         *)
(* Numbers.  A metric value is either missing (NaN) or a number.  A number *)
(* n is written <<n>> and NaN is <<>>, so that the IEEE rule "every        *)
(* comparison with NaN is false" is explicit in GE/LE/GT.  Metric values   *)
(* are integers; a quantile is kept multiplied by 4, which makes pandas'   *)
(* linear interpolation at q = 0.25 and q = 0.75 exact.                    *)
(***************************************************************************)
EXTENDS Integers, Sequences, FiniteSets, TLC

VARIABLES data_source, regional_data, analysis_results, ret, monitor

vars == <<data_source, regional_data, analysis_results, ret, monitor>>

(* Bounds of the model. *)
MaxRows == 5
MaxVal == 3
MaxUniformRows == 9
MaxPowerRows == 31
MaxSample == 11
MaxArticles == 3
MaxCount == 7

MaxRuns == 2

----------------------------------------------------------------------------
(* Floating point values with NaN. *)

NaN == <<>>

Num(n) == <<n>>

IsNum(v) == v # NaN

GE(a, b) == IsNum(a) /\ IsNum(b) /\ a[1] >= b[1]

LE(a, b) == IsNum(a) /\ IsNum(b) /\ a[1] <= b[1]

GT(a, b) == IsNum(a) /\ IsNum(b) /\ a[1] > b[1]

LT(a, b) == IsNum(a) /\ IsNum(b) /\ a[1] < b[1]

(* A metric value x on the scale of the quantiles (multiplied by 4). *)
Times4(x) == IF IsNum(x) THEN Num(4 * x[1]) ELSE NaN

----------------------------------------------------------------------------
(* The regional dataset: self.regional_data, None or a DataFrame. *)

DENSITY == "qris_merchant_density"

GROWTH == "pdrb_growth_pct"

RequiredCols == {DENSITY, GROWTH}

NoData == [loaded |-> FALSE, columns |-> {}, rows |-> <<>>]

DataFrame(cols, rows) == [loaded |-> TRUE, columns |-> cols, rows |-> rows]

Row(d, g) == [qris_merchant_density |-> d, pdrb_growth_pct |-> g]

Column(data, name) == [i \in 1..Len(data.rows) |-> data.rows[i][name]]

----------------------------------------------------------------------------
(* pandas Series.quantile(q), default interpolation "linear": the missing  *)
(* values are skipped, the rest is sorted, and the value at the fractional *)
(* position (n - 1) * q is interpolated between its two neighbours.  An    *)
(* empty (or all-missing) column gives NaN.  The result is 4 * quantile.   *)

RECURSIVE Insert(_, _)
Insert(s, x) ==
  IF s = <<>> THEN <<x>>
  ELSE IF x <= Head(s) THEN <<x>> \o s
       ELSE <<Head(s)>> \o Insert(Tail(s), x)

RECURSIVE SortAsc(_)
SortAsc(s) == IF s = <<>> THEN <<>> ELSE Insert(SortAsc(Tail(s)), Head(s))

DropNa(col) ==
  LET kept == SelectSeq(col, IsNum)
  IN  [i \in 1..Len(kept) |-> kept[i][1]]

(* k = 1 for q = 0.25, k = 2 for the median, k = 3 for q = 0.75 *)
quantile(col, k) ==
  LET v == SortAsc(DropNa(col))
      n == Len(v)
      pos == (n - 1) * k
      lo == (pos \div 4) + 1
      frac == pos % 4
  IN  IF n = 0 THEN NaN
      ELSE IF frac = 0 THEN Num(4 * v[lo])
           ELSE Num(4 * v[lo] + frac * (v[lo + 1] - v[lo]))

----------------------------------------------------------------------------
(* _perform_quadrant_analysis *)

Buckets ==
  {"HIGH_PRIORITY_STARS", "SATURATED_MARKETS", "OPPORTUNITY_GAPS",
   "FOUNDATIONAL_DEVELOPMENT", "TRANSITIONAL"}

(* Variant: the two mixed clauses exclude the lower quartile itself. *)
quadrant_of_exclusive(qris, pdrb, qris_q1, qris_q3, pdrb_q1, pdrb_q3) ==
  IF GE(Times4(qris), qris_q3) /\ GE(Times4(pdrb), pdrb_q3)
    THEN "HIGH_PRIORITY_STARS"
  ELSE IF GE(Times4(qris), qris_q3) /\ LT(Times4(pdrb), pdrb_q1)
    THEN "SATURATED_MARKETS"
  ELSE IF LT(Times4(qris), qris_q1) /\ GE(Times4(pdrb), pdrb_q3)
    THEN "OPPORTUNITY_GAPS"
  ELSE IF LE(Times4(qris), qris_q1) /\ LE(Times4(pdrb), pdrb_q1)
    THEN "FOUNDATIONAL_DEVELOPMENT"
  ELSE "TRANSITIONAL"

(* Variant: the SATURATED_MARKETS clause is tested before the first one. *)
quadrant_of_reordered(qris, pdrb, qris_q1, qris_q3, pdrb_q1, pdrb_q3) ==
  IF GE(Times4(qris), qris_q3) /\ LE(Times4(pdrb), pdrb_q1)
    THEN "SATURATED_MARKETS"
  ELSE IF GE(Times4(qris), qris_q3) /\ GE(Times4(pdrb), pdrb_q3)
    THEN "HIGH_PRIORITY_STARS"
  ELSE IF LE(Times4(qris), qris_q1) /\ GE(Times4(pdrb), pdrb_q3)
    THEN "OPPORTUNITY_GAPS"
  ELSE IF LE(Times4(qris), qris_q1) /\ LE(Times4(pdrb), pdrb_q1)
    THEN "FOUNDATIONAL_DEVELOPMENT"
  ELSE "TRANSITIONAL"

(* the if/elif chain of the loop body: first matching clause wins *)
quadrant_of(qris, pdrb, qris_q1, qris_q3, pdrb_q1, pdrb_q3) ==
  IF GE(Times4(qris), qris_q3) /\ GE(Times4(pdrb), pdrb_q3)
    THEN "HIGH_PRIORITY_STARS"
  ELSE IF GE(Times4(qris), qris_q3) /\ LE(Times4(pdrb), pdrb_q1)
    THEN "SATURATED_MARKETS"
  ELSE IF LE(Times4(qris), qris_q1) /\ GE(Times4(pdrb), pdrb_q3)
    THEN "OPPORTUNITY_GAPS"
  ELSE IF LE(Times4(qris), qris_q1) /\ LE(Times4(pdrb), pdrb_q1)
    THEN "FOUNDATIONAL_DEVELOPMENT"
  ELSE "TRANSITIONAL"

strategy_of(quadrant) ==
  CASE quadrant = "HIGH_PRIORITY_STARS" -> "Deepen transaction value"
    [] quadrant = "SATURATED_MARKETS" -> "Focus on efficiency"
    [] quadrant = "OPPORTUNITY_GAPS" -> "Target with SIAP QRIS campaign"
    [] quadrant = "FOUNDATIONAL_DEVELOPMENT" -> "Basic digital infrastructure"
    [] OTHER -> "Monitor trends"

(* quadrant_counts: a dict holding only the buckets that occur *)
quadrant_counts(quadrants) ==
  [b \in {quadrants[i].quadrant : i \in DOMAIN quadrants} |->
     Cardinality({i \in DOMAIN quadrants : quadrants[i].quadrant = b})]

QuadrantError ==
  [kind |-> "error", quadrant_distribution |-> <<>>, province_details |-> <<>>,
   thresholds |-> <<>>]

(* an exception leaves the function: no value is returned *)
Raised ==
  [kind |-> "raise", quadrant_distribution |-> <<>>, province_details |-> <<>>,
   thresholds |-> <<>>]

(* The row identifier (row['province']) is the position of the row.  The  *)
(* field thresholds is not part of the returned dict: it records the four *)
(* local variables qris_q1, qris_q3, pdrb_q1, pdrb_q3.                    *)
perform_quadrant_analysis(data) ==
  IF ~data.loaded THEN Raised
  ELSE IF Len(data.rows) < 4 THEN QuadrantError
  ELSE IF ~(RequiredCols \subseteq data.columns) THEN Raised
  ELSE
    LET qris_q1 == quantile(Column(data, DENSITY), 1)
        qris_q3 == quantile(Column(data, DENSITY), 3)
        pdrb_q1 == quantile(Column(data, GROWTH), 1)
        pdrb_q3 == quantile(Column(data, GROWTH), 3)
        quadrants ==
          [i \in 1..Len(data.rows) |->
            LET qris == data.rows[i][DENSITY]
                pdrb == data.rows[i][GROWTH]
                quadrant ==
                  quadrant_of(qris, pdrb, qris_q1, qris_q3, pdrb_q1, pdrb_q3)
            IN  [province |-> i, quadrant |-> quadrant,
                 strategy |-> strategy_of(quadrant),
                 qris_density |-> qris, pdrb_growth |-> pdrb]]
    IN  [kind |-> "ok",
         quadrant_distribution |-> quadrant_counts(quadrants),
         province_details |-> quadrants,
         thresholds |-> <<qris_q1, qris_q3, pdrb_q1, pdrb_q3>>]

----------------------------------------------------------------------------
(* _calculate_statistical_power: a function of len(self.regional_data) *)

(* Variant: the EXCELLENT band starts above 30. *)
power_of_above(n) ==
  IF n > 30 THEN "EXCELLENT (n >= 30)"
  ELSE IF n >= 20 THEN "GOOD (n >= 20)"
  ELSE IF n >= 10 THEN "MODERATE (n >= 10)"
  ELSE IF n >= 5 THEN "LIMITED (n < 10)"
  ELSE "INSUFFICIENT FOR POLICY DECISIONS"

power_of(n) ==
  IF n >= 30 THEN "EXCELLENT (n >= 30)"
  ELSE IF n >= 20 THEN "GOOD (n >= 20)"
  ELSE IF n >= 10 THEN "MODERATE (n >= 10)"
  ELSE IF n >= 5 THEN "LIMITED (n < 10)"
  ELSE "INSUFFICIENT FOR POLICY DECISIONS"

calculate_statistical_power(data) ==
  IF ~data.loaded THEN "raise" ELSE power_of(Len(data.rows))

----------------------------------------------------------------------------
(* Input datasets.  A dataset comes from a benchmark file, so any table is *)
(* possible: values may be missing in a row, and a metric may be absent    *)
(* from the schema.  Row types are numbered, and the small datasets are    *)
(* enumerated up to the order of their rows (the quantiles sort each       *)
(* column and the classification handles one row at a time).  The uniform  *)
(* datasets repeat one complete row and reach the sizes that the power     *)
(* rating distinguishes.                                                   *)

RowTypes == 0..((MaxVal + 1) * (MaxVal + 1) - 1)

ValueOf(c) == IF c = 0 THEN NaN ELSE Num(c)

RowOf(t) == Row(ValueOf(t \div (MaxVal + 1)), ValueOf(t % (MaxVal + 1)))

(* a column absent from the schema has no value in any row *)
TypesFor(cols) ==
  {t \in RowTypes : \A c \in RequiredCols \ cols : RowOf(t)[c] = NaN}

CompleteTypes ==
  {t \in RowTypes : IsNum(RowOf(t)[DENSITY]) /\ IsNum(RowOf(t)[GROWTH])}

(* data is a table of n rows over the columns cols that continues rows,  *)
(* with row types in non-decreasing order from the type lo on            *)
RECURSIVE SmallDataset(_, _, _, _, _)
SmallDataset(data, cols, rows, lo, n) ==
  IF Len(rows) = n THEN data = DataFrame(cols, rows)
  ELSE \E t \in {u \in TypesFor(cols) : u >= lo} :
         SmallDataset(data, cols, Append(rows, RowOf(t)), t, n)

(* data is a table of n equal complete rows *)
UniformDataset(data, n) ==
  \E t \in CompleteTypes :
    data = DataFrame(RequiredCols, [i \in 1..n |-> RowOf(t)])

NoResults == [present |-> FALSE]

NoCall == [call |-> "none", value |-> <<>>]

(* values of the constructor argument data_source *)
DataSources == {"benchmark", "api", "file", "other"}

(* no call of monitor_market_sentiment is running *)
Idle == [pc |-> "idle"]

----------------------------------------------------------------------------
(* Direct calls of the dataset functions on a loaded dataset. *)

InitQuad ==
  /\ data_source = "benchmark"
  /\ \/ \E cols \in SUBSET RequiredCols, n \in 0..MaxRows :
          SmallDataset(regional_data, cols, <<>>, 0, n)
     \/ \E n \in (MaxRows + 1)..MaxUniformRows :
          UniformDataset(regional_data, n)
  /\ analysis_results = NoResults
  /\ monitor = Idle
  /\ ret = NoCall

(* Variant: the list of classified provinces is kept between the calls    *)
(* and each call appends to it.                                           *)
QuadrantCall_accumulating ==
  LET run == IF ret.call = "_perform_quadrant_analysis" THEN ret.run ELSE 0
      kept == IF run = 0 THEN <<>> ELSE ret.value.province_details
      result == perform_quadrant_analysis(regional_data)
      quadrants == kept \o result.province_details
  IN  /\ run < MaxRuns
      /\ ret' = [call |-> "_perform_quadrant_analysis",
                 value |-> [result EXCEPT
                              !.province_details = quadrants,
                              !.quadrant_distribution =
                                 quadrant_counts(quadrants)],
                 run |-> run + 1]
      /\ UNCHANGED <<data_source, regional_data, analysis_results, monitor>>

(* run numbers the calls made on the dataset *)
QuadrantCall ==
  LET run == IF ret.call = "_perform_quadrant_analysis" THEN ret.run ELSE 0
  IN  /\ run < MaxRuns
      /\ ret' = [call |-> "_perform_quadrant_analysis",
                 value |-> perform_quadrant_analysis(regional_data),
                 run |-> run + 1]
  /\ UNCHANGED <<data_source, regional_data, analysis_results, monitor>>

NextQuad == QuadrantCall

SpecQuad == InitQuad /\ [][NextQuad]_vars

InitPower ==
  /\ data_source = "benchmark"
  /\ \E n \in 0..MaxPowerRows : UniformDataset(regional_data, n)
  /\ analysis_results = NoResults
  /\ monitor = Idle
  /\ ret = NoCall

PowerCall ==
  /\ ret' = [call |-> "_calculate_statistical_power",
             value |-> calculate_statistical_power(regional_data)]
  /\ UNCHANGED <<data_source, regional_data, analysis_results, monitor>>

NextPower == PowerCall

SpecPower == InitPower /\ [][NextPower]_vars

----------------------------------------------------------------------------
(* Properties of the quadrant classifier (SpecQuad). *)

QuadrantReturned ==
  ret.call = "_perform_quadrant_analysis" /\ ret.value.kind = "ok"

(* the records with both metrics non-missing *)
Qualifying(data) ==
  {i \in 1..Len(data.rows) :
     IsNum(data.rows[i][DENSITY]) /\ IsNum(data.rows[i][GROWTH])}

RECURSIVE SumCounts(_, _)
SumCounts(f, keys) ==
  IF keys = {} THEN 0
  ELSE LET k == CHOOSE x \in keys : TRUE
       IN  f[k] + SumCounts(f, keys \ {k})

(* C1: for a dataset of at least 4 records the counts of the returned     *)
(* quadrant_distribution sum to the number of qualifying records.         *)
C1_CountsSumToQualifying ==
  (QuadrantReturned /\ Len(regional_data.rows) >= 4) =>
    SumCounts(ret.value.quadrant_distribution,
              DOMAIN ret.value.quadrant_distribution)
      = Cardinality(Qualifying(regional_data))

(* The reference rule of the specification: the quartiles are taken over  *)
(* the qualifying records, and the clauses are tried in the listed order. *)
QualifyingColumn(data, name) ==
  LET keep(row) == IsNum(row[DENSITY]) /\ IsNum(row[GROWTH])
      rows == SelectSeq(data.rows, keep)
  IN  [i \in 1..Len(rows) |-> rows[i][name]]

ReferenceBucket(x, y, X_q1, X_q3, Y_q1, Y_q3) ==
  CASE 4 * x >= X_q3 /\ 4 * y >= Y_q3 -> "HIGH_PRIORITY_STARS"
    [] 4 * x >= X_q3 /\ 4 * y <= Y_q1 /\ ~(4 * y >= Y_q3) -> "SATURATED_MARKETS"
    [] 4 * x <= X_q1 /\ 4 * y >= Y_q3 /\ ~(4 * x >= X_q3) -> "OPPORTUNITY_GAPS"
    [] 4 * x <= X_q1 /\ 4 * y <= Y_q1 /\ ~(4 * x >= X_q3) /\ ~(4 * y >= Y_q3)
         -> "FOUNDATIONAL_DEVELOPMENT"
    [] OTHER -> "TRANSITIONAL"

(* C2: with at least 4 qualifying records every qualifying record has     *)
(* exactly one assignment, and its bucket is the reference rule against   *)
(* the 25th/75th percentiles of X and of Y over the qualifying records.   *)
C2_BucketIsReferenceRule ==
  (QuadrantReturned /\ Cardinality(Qualifying(regional_data)) >= 4) =>
    LET X_q1 == quantile(QualifyingColumn(regional_data, DENSITY), 1)[1]
        X_q3 == quantile(QualifyingColumn(regional_data, DENSITY), 3)[1]
        Y_q1 == quantile(QualifyingColumn(regional_data, GROWTH), 1)[1]
        Y_q3 == quantile(QualifyingColumn(regional_data, GROWTH), 3)[1]
        details == ret.value.province_details
    IN  \A i \in Qualifying(regional_data) :
          /\ Cardinality({j \in DOMAIN details : details[j].province = i}) = 1
          /\ \A j \in DOMAIN details :
               details[j].province = i =>
                 details[j].quadrant =
                   ReferenceBucket(regional_data.rows[i][DENSITY][1],
                                   regional_data.rows[i][GROWTH][1],
                                   X_q1, X_q3, Y_q1, Y_q3)

(* a record exactly at the classifier's thresholds (a, b) *)
ExactlyAt(d, a, b) ==
  /\ IsNum(d.qris_density) /\ Times4(d.qris_density) = ret.value.thresholds[a]
  /\ IsNum(d.pdrb_growth) /\ Times4(d.pdrb_growth) = ret.value.thresholds[b]

(* C3 as stated: a record exactly at (X_q1, Y_q3) is OPPORTUNITY_GAPS and *)
(* a record exactly at (X_q3, Y_q1) is SATURATED_MARKETS.                 *)
C3_BoundaryAsStated ==
  QuadrantReturned =>
    \A j \in DOMAIN ret.value.province_details :
      LET d == ret.value.province_details[j]
      IN  /\ ExactlyAt(d, 1, 4) => d.quadrant = "OPPORTUNITY_GAPS"
          /\ ExactlyAt(d, 2, 3) => d.quadrant = "SATURATED_MARKETS"

(* C3 amended: a record exactly at (X_q1, Y_q3) is OPPORTUNITY_GAPS       *)
(* unless X_q1 = X_q3, a record exactly at (X_q3, Y_q1) is                *)
(* SATURATED_MARKETS unless Y_q1 = Y_q3; in these two degenerate cases    *)
(* the first clause wins and the record is HIGH_PRIORITY_STARS.  Such a   *)
(* record is never TRANSITIONAL.                                          *)
C3_BoundaryInclusive ==
  QuadrantReturned =>
    \A j \in DOMAIN ret.value.province_details :
      LET d == ret.value.province_details[j]
          q == ret.value.thresholds
      IN  /\ ExactlyAt(d, 1, 4) =>
               d.quadrant = IF q[1] = q[2] THEN "HIGH_PRIORITY_STARS"
                            ELSE "OPPORTUNITY_GAPS"
          /\ ExactlyAt(d, 2, 3) =>
               d.quadrant = IF q[3] = q[4] THEN "HIGH_PRIORITY_STARS"
                            ELSE "SATURATED_MARKETS"
          /\ (ExactlyAt(d, 1, 4) \/ ExactlyAt(d, 2, 3)) =>
               d.quadrant # "TRANSITIONAL"

(* a classified dataset holds one record exactly at (X_q1, Y_q3) with     *)
(* X_q1 < X_q3 and one exactly at (X_q3, Y_q1) with Y_q1 < Y_q3           *)
C3_Witness ==
  /\ QuadrantReturned
  /\ \E j \in DOMAIN ret.value.province_details :
       /\ ExactlyAt(ret.value.province_details[j], 1, 4)
       /\ ret.value.thresholds[1] # ret.value.thresholds[2]
       /\ ret.value.province_details[j].quadrant = "OPPORTUNITY_GAPS"
  /\ \E j \in DOMAIN ret.value.province_details :
       /\ ExactlyAt(ret.value.province_details[j], 2, 3)
       /\ ret.value.thresholds[3] # ret.value.thresholds[4]
       /\ ret.value.province_details[j].quadrant = "SATURATED_MARKETS"

AllRecordsEqual(data) ==
  /\ Qualifying(data) = 1..Len(data.rows)
  /\ \A i, j \in 1..Len(data.rows) : data.rows[i] = data.rows[j]

(* C4: when all records (at least 4) have the same density and the same   *)
(* growth, every record is HIGH_PRIORITY_STARS and no other bucket is     *)
(* used.                                                                  *)
C4_AllEqualAreStars ==
  (ret.call = "_perform_quadrant_analysis" /\ Len(regional_data.rows) >= 4
     /\ RequiredCols \subseteq regional_data.columns
     /\ AllRecordsEqual(regional_data)) =>
    /\ ret.value.kind = "ok"
    /\ Len(ret.value.province_details) = Len(regional_data.rows)
    /\ \A j \in DOMAIN ret.value.province_details :
         ret.value.province_details[j].quadrant = "HIGH_PRIORITY_STARS"
    /\ DOMAIN ret.value.quadrant_distribution = {"HIGH_PRIORITY_STARS"}
    /\ ret.value.quadrant_distribution["HIGH_PRIORITY_STARS"]
         = Len(regional_data.rows)

C4_Witness ==
  /\ QuadrantReturned
  /\ Len(regional_data.rows) > 4
  /\ AllRecordsEqual(regional_data)
  /\ ret.value.quadrant_distribution["HIGH_PRIORITY_STARS"]
       = Len(regional_data.rows)

(* C5: with fewer than 4 qualifying records the classifier fails and      *)
(* returns no partial output.                                             *)
C5_FewQualifyingFails ==
  (ret.call = "_perform_quadrant_analysis"
     /\ Cardinality(Qualifying(regional_data)) < 4) =>
    /\ ret.value.kind # "ok"
    /\ ret.value.province_details = <<>>
    /\ ret.value.quadrant_distribution = <<>>

----------------------------------------------------------------------------
(* Properties of the statistical power rating (SpecPower). *)

(* C8: the rating is a function of the record count n alone: EXCELLENT    *)
(* for n >= 30, GOOD for 20 <= n < 30, MODERATE for 10 <= n < 20, LIMITED *)
(* for 5 <= n < 10, INSUFFICIENT for n < 5.                               *)
C8_PowerByCount ==
  ret.call = "_calculate_statistical_power" =>
    LET n == Len(regional_data.rows)
    IN  /\ n >= 30 => ret.value = "EXCELLENT (n >= 30)"
        /\ (20 <= n /\ n < 30) => ret.value = "GOOD (n >= 20)"
        /\ (10 <= n /\ n < 20) => ret.value = "MODERATE (n >= 10)"
        /\ (5 <= n /\ n < 10) => ret.value = "LIMITED (n < 10)"
        /\ n < 5 => ret.value = "INSUFFICIENT FOR POLICY DECISIONS"

C8_Witness ==
  /\ ret.call = "_calculate_statistical_power"
  /\ Len(regional_data.rows) = 30
  /\ ret.value = "EXCELLENT (n >= 30)"

----------------------------------------------------------------------------
(* _interpret_correlation(r, p, n).  r and p are floats (possibly NaN),   *)
(* written in hundredths: 0.7 is 70 and 0.05 is 5.  The returned string   *)
(* is the sequence of the parts of the f-string.                          *)

(* Variant: the significance test comes before the sample size test. *)
interpret_correlation_significance_first(r, p, n) ==
  IF GE(p, Num(5))
    THEN <<"No statistically significant relationship at 95% confidence">>
  ELSE IF n < 10
    THEN <<"PRELIMINARY: Requires full provincial dataset (n=", n,
           " < 20 minimum)">>
  ELSE IF GT(r, Num(70)) THEN <<"Strong positive coupling">>
  ELSE IF GT(r, Num(30)) THEN <<"Moderate positive relationship">>
  ELSE IF GT(r, Num(0 - 30)) THEN <<"Weak or no linear relationship">>
  ELSE IF GT(r, Num(0 - 70)) THEN <<"Moderate negative relationship">>
  ELSE <<"Strong negative relationship">>

(* Variant: the strong positive band includes 0.7. *)
interpret_correlation_inclusive(r, p, n) ==
  IF n < 10
    THEN <<"PRELIMINARY: Requires full provincial dataset (n=", n,
           " < 20 minimum)">>
  ELSE IF GE(p, Num(5))
    THEN <<"No statistically significant relationship at 95% confidence">>
  ELSE IF GE(r, Num(70)) THEN <<"Strong positive coupling">>
  ELSE IF GT(r, Num(30)) THEN <<"Moderate positive relationship">>
  ELSE IF GT(r, Num(0 - 30)) THEN <<"Weak or no linear relationship">>
  ELSE IF GT(r, Num(0 - 70)) THEN <<"Moderate negative relationship">>
  ELSE <<"Strong negative relationship">>

interpret_correlation(r, p, n) ==
  IF n < 10
    THEN <<"PRELIMINARY: Requires full provincial dataset (n=", n,
           " < 20 minimum)">>
  ELSE IF GE(p, Num(5))
    THEN <<"No statistically significant relationship at 95% confidence">>
  ELSE IF GT(r, Num(70)) THEN <<"Strong positive coupling">>
  ELSE IF GT(r, Num(30)) THEN <<"Moderate positive relationship">>
  ELSE IF GT(r, Num(0 - 30)) THEN <<"Weak or no linear relationship">>
  ELSE IF GT(r, Num(0 - 70)) THEN <<"Moderate negative relationship">>
  ELSE <<"Strong negative relationship">>

----------------------------------------------------------------------------
(* MONITORING_PILLARS (weights in hundredths) *)

MONITORING_PILLARS ==
  [RISK_FRAUD |->
     [query |-> "QRIS AND (Penipuan OR Scam OR Phishing OR 'Saldo Hilang')",
      weight |-> 30,
      action_team |-> "BI Supervision & Consumer Protection"],
   SYSTEM_STABILITY |->
     [query |-> "QRIS AND (Gangguan OR Error OR Down OR Maintenance)",
      weight |-> 25,
      action_team |-> "BI Payment System Operations"],
   MERCHANT_ADOPTION |->
     [query |-> "(UMKM OR Pedagang OR Warung) AND (QRIS OR 'Pembayaran Digital')",
      weight |-> 20,
      action_team |-> "BI Financial Inclusion Division"],
   CONSUMER_SENTIMENT |->
     [query |-> "(QRIS OR 'QR Payment') AND (Mudah OR Praktis OR Ribet OR Mahal)",
      weight |-> 15,
      action_team |-> "BI Communications Department"],
   COMPETITIVE_LANDSCAPE |->
     [query |-> "(GoPay OR OVO OR DANA OR LinkAja) AND (QRIS OR 'QR Code')",
      weight |-> 10,
      action_team |-> "BI Market Intelligence"]]

Pillars == DOMAIN MONITORING_PILLARS

----------------------------------------------------------------------------
(* Strings of the sentiment functions: a string is a sequence of          *)
(* characters, so that str.lower, " ".join and the substring test         *)
(* (keyword in titles) are modelled by what they do.                      *)

UpperCase ==
  <<"A", "B", "C", "D", "E", "F", "G", "H", "I", "J", "K", "L", "M",
    "N", "O", "P", "Q", "R", "S", "T", "U", "V", "W", "X", "Y", "Z">>

LowerCase ==
  <<"a", "b", "c", "d", "e", "f", "g", "h", "i", "j", "k", "l", "m",
    "n", "o", "p", "q", "r", "s", "t", "u", "v", "w", "x", "y", "z">>

LowerChar(c) ==
  IF \E i \in DOMAIN UpperCase : UpperCase[i] = c
  THEN LowerCase[CHOOSE i \in DOMAIN UpperCase : UpperCase[i] = c]
  ELSE c

(* str.lower() *)
Lower(str) == [i \in 1..Len(str) |-> LowerChar(str[i])]

(* " ".join(parts) *)
RECURSIVE Join(_)
Join(parts) ==
  IF parts = <<>> THEN <<>>
  ELSE IF Len(parts) = 1 THEN parts[1]
  ELSE parts[1] \o <<" ">> \o Join(Tail(parts))

(* needle in hay *)
Contains(hay, needle) ==
  \E off \in 0..(Len(hay) - Len(needle)) :
    \A j \in 1..Len(needle) : hay[off + j] = needle[j]

(* An article is a dict; its 'title' key may be absent. *)
Article(title) == [has_title |-> TRUE, title |-> title]

Untitled == [has_title |-> FALSE, title |-> <<>>]

(* art.get('title', '') *)
TitleOf(art) == IF art.has_title THEN art.title ELSE <<>>

(* The headlines the model draws from: the three headlines of the fraud   *)
(* scenario, a keyword twice in two cases, stability keywords, "down"     *)
(* inside another word, a headline without keyword, an empty title.       *)
Headlines ==
  {
   <<"W", "a", "s", "p", "a", "d", "a", " ", "P", "e", "n", "i", "p",
    "u", "a", "n", " ", "Q", "R", "I", "S", " ", "m", "a", "r", "a",
    "k">>,
   <<"K", "o", "r", "b", "a", "n", " ", "l", "a", "p", "o", "r", " ",
    "k", "e", " ", "p", "o", "l", "i", "s", "i">>,
   <<"M", "o", "d", "u", "s", " ", "s", "c", "a", "m", " ", "b", "a",
    "r", "u">>,
   <<"S", "C", "A", "M", ":", " ", "s", "c", "a", "m", " ", "l", "a",
    "g", "i">>,
   <<"Q", "R", "I", "S", " ", "D", "o", "w", "n", ",", " ", "E", "r",
    "r", "o", "r", " ", "m", "a", "s", "s", "a", "l">>,
   <<"G", "a", "n", "g", "g", "u", "a", "n", " ", "d", "a", "n", " ",
    "k", "o", "m", "p", "l", "a", "i", "n">>,
   <<"D", "o", "w", "n", "l", "o", "a", "d", " ", "g", "a", "g", "a",
    "l">>,
   <<"U", "M", "K", "M", " ", "p", "a", "k", "a", "i", " ", "Q", "R",
    "I", "S">>,
   <<>>
  }

Articles == {Article(t) : t \in Headlines} \cup {Untitled}

----------------------------------------------------------------------------
(* _assess_pillar_risk(articles, pillar) *)

risk_keywords ==
  [RISK_FRAUD |->
    {<<"p", "e", "n", "i", "p", "u", "a", "n">>,
     <<"s", "c", "a", "m">>,
     <<"k", "o", "r", "b", "a", "n">>,
     <<"p", "o", "l", "i", "s", "i">>,
     <<"l", "a", "p", "o", "r">>},
   SYSTEM_STABILITY |->
    {<<"d", "o", "w", "n">>,
     <<"e", "r", "r", "o", "r">>,
     <<"g", "a", "g", "a", "l">>,
     <<"g", "a", "n", "g", "g", "u", "a", "n">>,
     <<"k", "o", "m", "p", "l", "a", "i", "n">>}]

(* Variant: the titles are not lower-cased. *)
assess_pillar_risk_case_sensitive(articles, pillar) ==
  IF articles = <<>> THEN "LOW"
  ELSE
    LET titles == Join([i \in 1..Len(articles) |-> TitleOf(articles[i])])
        matches ==
          IF pillar \in DOMAIN risk_keywords
          THEN Cardinality({keyword \in risk_keywords[pillar] :
                              Contains(titles, keyword)})
          ELSE 0
    IN  IF pillar \in DOMAIN risk_keywords /\ matches >= 3 THEN "HIGH"
        ELSE IF pillar \in DOMAIN risk_keywords /\ matches >= 1 THEN "MEDIUM"
        ELSE "LOW"

assess_pillar_risk(articles, pillar) ==
  IF articles = <<>> THEN "LOW"
  ELSE
    LET titles ==
          Join([i \in 1..Len(articles) |-> Lower(TitleOf(articles[i]))])
        matches ==
          IF pillar \in DOMAIN risk_keywords
          THEN Cardinality({keyword \in risk_keywords[pillar] :
                              Contains(titles, keyword)})
          ELSE 0
    IN  IF pillar \in DOMAIN risk_keywords /\ matches >= 3 THEN "HIGH"
        ELSE IF pillar \in DOMAIN risk_keywords /\ matches >= 1 THEN "MEDIUM"
        ELSE "LOW"

----------------------------------------------------------------------------
(* _generate_response(action_team, article_count): the parts of the       *)
(* returned f-string                                                      *)

(* Variant: two articles already call for enhanced monitoring. *)
generate_response_below(action_team, article_count) ==
  IF article_count = 0 THEN <<"No action required - continue monitoring">>
  ELSE IF article_count < 2 THEN <<"Standard monitoring by ", action_team>>
  ELSE IF article_count <= 5
    THEN <<"Enhanced monitoring recommended - ", action_team,
           " should review">>
  ELSE <<"Immediate attention required - ", action_team,
         " should prepare response">>

generate_response(action_team, article_count) ==
  IF article_count = 0 THEN <<"No action required - continue monitoring">>
  ELSE IF article_count <= 2 THEN <<"Standard monitoring by ", action_team>>
  ELSE IF article_count <= 5
    THEN <<"Enhanced monitoring recommended - ", action_team,
           " should review">>
  ELSE <<"Immediate attention required - ", action_team,
         " should prepare response">>

----------------------------------------------------------------------------
(* Direct calls of the pure functions on a freshly constructed object.    *)

(* r and p in hundredths, or NaN (pearsonr of a constant column) *)
Coefficients == {Num(r) : r \in (0 - 100)..100} \cup {NaN}

Probabilities == {Num(p) : p \in 0..10} \cup {Num(100), NaN}

ArticleLists == UNION {[1..n -> Articles] : n \in 0..MaxArticles}

(* a call about to be made, with its arguments *)
Pending(fn, args) == [call |-> "pending", fn |-> fn, args |-> args]

InitFn ==
  /\ data_source = "benchmark"
  /\ regional_data = NoData
  /\ analysis_results = NoResults
  /\ monitor = Idle
  /\ \/ \E r \in Coefficients, p \in Probabilities, n \in 0..MaxSample :
          ret = Pending("_interpret_correlation", <<r, p, n>>)
     \/ \E articles \in ArticleLists, pillar \in Pillars :
          ret = Pending("_assess_pillar_risk", <<articles, pillar>>)
     \/ \E pillar \in Pillars, article_count \in 0..MaxCount :
          ret = Pending("_generate_response",
                        <<MONITORING_PILLARS[pillar].action_team,
                          article_count>>)

InterpretCall ==
  /\ ret.call = "pending" /\ ret.fn = "_interpret_correlation"
  /\ ret' = [call |-> "_interpret_correlation", args |-> ret.args,
             value |-> interpret_correlation(ret.args[1], ret.args[2],
                                             ret.args[3])]
  /\ UNCHANGED <<data_source, regional_data, analysis_results, monitor>>

RiskCall ==
  /\ ret.call = "pending" /\ ret.fn = "_assess_pillar_risk"
  /\ ret' = [call |-> "_assess_pillar_risk", args |-> ret.args,
             value |-> assess_pillar_risk(ret.args[1], ret.args[2])]
  /\ UNCHANGED <<data_source, regional_data, analysis_results, monitor>>

ResponseCall ==
  /\ ret.call = "pending" /\ ret.fn = "_generate_response"
  /\ ret' = [call |-> "_generate_response", args |-> ret.args,
             value |-> generate_response(ret.args[1], ret.args[2])]
  /\ UNCHANGED <<data_source, regional_data, analysis_results, monitor>>

NextFn == InterpretCall \/ RiskCall \/ ResponseCall

SpecFn == InitFn /\ [][NextFn]_vars

----------------------------------------------------------------------------
(* monitor_market_sentiment: one pass over MONITORING_PILLARS, a dict     *)
(* iterated in definition order.                                          *)

PillarOrder ==
  <<"RISK_FRAUD", "SYSTEM_STABILITY", "MERCHANT_ADOPTION",
    "CONSUMER_SENTIMENT", "COMPETITIVE_LANDSCAPE">>

(* Article lists a 200 response may carry: none, and for each risk level  *)
(* of the fraud pillar one list of MaxArticles articles at most.          *)
ResponseArticles ==
  {<<>>} \cup
  {CHOOSE a \in ArticleLists :
      Len(a) = MaxArticles /\ assess_pillar_risk(a, "RISK_FRAUD") = level :
        level \in {"LOW", "MEDIUM", "HIGH"}}

(* What requests.get(..., timeout=15) followed by response.json() does:   *)
(* it raises (endpoint unreachable, timeout, a 200 body that is not       *)
(* JSON), answers with a status other than 200, or answers 200 with a     *)
(* JSON object whose 'articles' default to [].                            *)
Responses ==
  {[kind |-> "raise", error |-> e] :
      e \in {"ConnectionError", "Timeout", "JSONDecodeError"}} \cup
  {[kind |-> "status", status_code |-> c] : c \in {500}} \cup
  {[kind |-> "ok", articles |-> a] : a \in ResponseArticles}

NoTitle == <<"N", "o", " ", "t", "i", "t", "l", "e">>

(* art.get('title', 'No title')[:80] *)
sample_headline(art) ==
  LET title == IF art.has_title THEN art.title ELSE NoTitle
  IN  SubSeq(title, 1, IF Len(title) < 80 THEN Len(title) ELSE 80)

(* the body of the loop for one pillar: sentiment_results["findings"]     *)
(* [pillar] for the outcome of the request                                *)
finding_of(pillar, response) ==
  IF response.kind = "raise"
    THEN [error |-> response.error, risk_level |-> "MONITORING_FAILED"]
  ELSE IF response.kind = "status"
    THEN [error |-> <<"API Error: ", response.status_code>>,
          risk_level |-> "UNKNOWN"]
  ELSE
    LET articles == response.articles
        config == MONITORING_PILLARS[pillar]
    IN  [articles_found |-> Len(articles),
         risk_level |-> assess_pillar_risk(articles, pillar),
         sample_headlines |->
           [i \in 1..(IF Len(articles) < 2 THEN Len(articles) ELSE 2) |->
              sample_headline(articles[i])],
         action_team |-> config.action_team,
         recommended_response |->
           generate_response(config.action_team, Len(articles))]

(* the returned dict; findings in insertion order *)
sentiment_results(findings) ==
  [pillars_monitored |-> PillarOrder,
   findings |-> findings,
   operational_status |-> "ACTIVE"]

(* the whole call, for the outcomes of its five requests *)
monitor_market_sentiment(responses) ==
  sentiment_results([i \in 1..Len(PillarOrder) |->
                       <<PillarOrder[i],
                         finding_of(PillarOrder[i], responses[i])>>])

(* The call step by step.  The frame holds the position in the loop, the  *)
(* findings so far and the trace of the blocking calls made.              *)
InitMonitor ==
  /\ data_source \in DataSources
  /\ regional_data = NoData
  /\ analysis_results = NoResults
  /\ ret = NoCall
  /\ monitor = Idle

MonitorStart ==
  /\ monitor.pc = "idle"
  /\ monitor' = [pc |-> "sleep", i |-> 1, findings |-> <<>>, trace |-> <<>>]
  /\ ret' = Pending("monitor_market_sentiment", <<>>)
  /\ UNCHANGED <<data_source, regional_data, analysis_results>>

(* time.sleep(1.5) *)
MonitorSleep ==
  /\ monitor.pc = "sleep"
  /\ monitor' = [monitor EXCEPT
                   !.pc = "get",
                   !.trace = Append(@, <<"sleep", PillarOrder[monitor.i]>>)]
  /\ UNCHANGED <<data_source, regional_data, analysis_results, ret>>

(* Variant: the loop is left at the first request that raises. *)
MonitorRequest_abort ==
  /\ monitor.pc = "get"
  /\ \E response \in Responses :
       LET pillar == PillarOrder[monitor.i]
       IN  monitor' =
             [pc |-> IF monitor.i = Len(PillarOrder)
                        \/ response.kind = "raise"
                     THEN "return" ELSE "sleep",
              i |-> monitor.i + 1,
              findings |-> Append(monitor.findings,
                                  <<pillar, finding_of(pillar, response)>>),
              trace |-> Append(monitor.trace, <<"get", pillar>>)]
  /\ UNCHANGED <<data_source, regional_data, analysis_results, ret>>

(* requests.get and the handling of its outcome *)
MonitorRequest ==
  /\ monitor.pc = "get"
  /\ \E response \in Responses :
       LET pillar == PillarOrder[monitor.i]
       IN  monitor' =
             [pc |-> IF monitor.i = Len(PillarOrder) THEN "return"
                     ELSE "sleep",
              i |-> monitor.i + 1,
              findings |-> Append(monitor.findings,
                                  <<pillar, finding_of(pillar, response)>>),
              trace |-> Append(monitor.trace, <<"get", pillar>>)]
  /\ UNCHANGED <<data_source, regional_data, analysis_results, ret>>

MonitorReturn ==
  /\ monitor.pc = "return"
  /\ ret' = [call |-> "monitor_market_sentiment",
             value |-> sentiment_results(monitor.findings)]
  /\ monitor' = Idle
  /\ UNCHANGED <<data_source, regional_data, analysis_results>>

NextMonitor ==
  MonitorStart \/ MonitorSleep \/ MonitorRequest \/ MonitorReturn

SpecMonitor == InitMonitor /\ [][NextMonitor]_vars

(* time.sleep returns, requests.get returns or raises within its timeout *)
SpecMonitorLive ==
  /\ SpecMonitor
  /\ WF_vars(MonitorSleep) /\ WF_vars(MonitorRequest)
  /\ WF_vars(MonitorReturn)

----------------------------------------------------------------------------
(* The life cycle of one BIPolicyOptimizer object: construction,          *)
(* load_data, analyze_regional_dynamics and the operations that follow    *)
(* in main.                                                               *)

(* _create_demo_dataset: seven provinces drawn with np.random.seed(42);   *)
(* density in hundredths, growth in tenths of a percent                   *)
demo_dataset ==
  DataFrame(RequiredCols,
            <<Row(Num(331), Num(64)), Row(Num(384), Num(47)),
              Row(Num(581), Num(45)), Row(Num(51), Num(65)),
              Row(Num(67), Num(55)), Row(Num(225), Num(47)),
              Row(Num(695), Num(59))>>)

(* Contents of the benchmark file found first in data_locations: tables   *)
(* of 0, 1, 2, 3, 4 and 5 rows, two with a missing value, one without the *)
(* growth column.                                                         *)
BenchmarkFiles ==
  {DataFrame({}, <<>>),
   DataFrame(RequiredCols, <<Row(Num(1), Num(2))>>),
   DataFrame(RequiredCols, <<Row(Num(1), Num(2)), Row(Num(2), NaN)>>),
   DataFrame(RequiredCols,
             <<Row(Num(1), Num(3)), Row(Num(2), Num(1)), Row(Num(3), Num(2))>>),
   DataFrame(RequiredCols,
             <<Row(Num(1), Num(2)), Row(Num(1), Num(1)), Row(Num(2), Num(1)),
               Row(Num(2), Num(2))>>),
   DataFrame(RequiredCols,
             <<Row(Num(2), Num(1)), Row(Num(1), Num(2)), Row(Num(1), Num(2)),
               Row(Num(2), Num(2))>>),
   DataFrame(RequiredCols,
             <<Row(Num(1), Num(2)), Row(Num(1), Num(1)), Row(Num(2), Num(1)),
               Row(Num(2), NaN)>>),
   DataFrame(RequiredCols,
             <<Row(Num(1), Num(3)), Row(Num(2), Num(2)), Row(Num(3), Num(1)),
               Row(Num(2), Num(3)), Row(Num(3), Num(3))>>),
   DataFrame({DENSITY},
             <<Row(Num(1), NaN), Row(Num(1), NaN), Row(Num(2), NaN),
               Row(Num(2), NaN)>>)}

(* _load_benchmark_data: file is "absent" (no location exists), "corrupt" *)
(* (json.load or raw_data['regional_matrix'] raises) or a table.  The     *)
(* result is <<return value, self.regional_data>>.                        *)
load_benchmark_data(data, file) ==
  IF file = [kind |-> "corrupt"] THEN <<"False", data>>
  ELSE IF file = [kind |-> "absent"] THEN <<"True", demo_dataset>>
  ELSE <<"True", file.table>>

(* load_data: _fetch_live_data and _load_production_data return the       *)
(* value of _create_demo_dataset(), which is None                         *)
load_data(source, data, custom_data_path, file) ==
  IF source = "benchmark" THEN load_benchmark_data(data, file)
  ELSE IF source = "api" THEN <<"None", demo_dataset>>
  ELSE IF source = "file" /\ custom_data_path THEN <<"None", demo_dataset>>
  ELSE <<"False", data>>

FileStates ==
  {[kind |-> "absent"], [kind |-> "corrupt"]} \cup
  {[kind |-> "table", table |-> t] : t \in BenchmarkFiles}

----------------------------------------------------------------------------
(* scipy.stats.pearsonr(x, y) on two columns of at least 2 rows.  The     *)
(* sign of r is the sign of the covariance; a constant column or a        *)
(* missing value gives (nan, nan); two rows give r = +-1 and p = 1.  The  *)
(* size of r and of p is left open (hundredths).  With two rows of which  *)
(* one has a missing value, r is nan and p is 1.                          *)

RECURSIVE SumSeq(_)
SumSeq(s) == IF s = <<>> THEN 0 ELSE Head(s) + SumSeq(Tail(s))

(* n * sum(x y) - sum(x) sum(y) *)
Covariance(x, y) ==
  LET n == Len(x)
  IN  n * SumSeq([i \in 1..n |-> x[i][1] * y[i][1]])
        - SumSeq([i \in 1..n |-> x[i][1]]) * SumSeq([i \in 1..n |-> y[i][1]])

pearsonr(x, y) ==
  IF \E i \in 1..Len(x) : ~IsNum(x[i]) \/ ~IsNum(y[i])
    THEN {<<NaN, IF Len(x) = 2 THEN Num(100) ELSE NaN>>}
  ELSE IF Covariance(x, x) = 0 \/ Covariance(y, y) = 0
    THEN {<<NaN, NaN>>}
  ELSE
    LET c == Covariance(x, y)
        sizes == IF Len(x) = 2 THEN {100} ELSE {20, 80, 100}
        ps == IF Len(x) = 2 THEN {100} ELSE {1, 50}
    IN  IF c = 0 THEN {<<Num(0), Num(100)>>}
        ELSE {<<Num(IF c > 0 THEN m ELSE 0 - m), Num(q)>> :
                m \in sizes, q \in ps}

(* "from scipy.stats import pearsonr" inside the try block raises when    *)
(* scipy is not installed                                                 *)
ImportFailed == <<"ImportError">>

(* the import followed by the call: the outcomes of the try block's       *)
(* first statements                                                       *)
correlate(x, y) == {ImportFailed} \cup pearsonr(x, y)

----------------------------------------------------------------------------
(* _analyze_regional_trends: the two cluster counts (the per-region       *)
(* aggregates are left out)                                               *)
analyze_regional_trends(data) ==
  IF Len(data.rows) >= 4
  THEN LET pdrb_median == quantile(Column(data, GROWTH), 2)
           qris_median == quantile(Column(data, DENSITY), 2)
       IN  [clustering_patterns |->
             <<Cardinality({i \in 1..Len(data.rows) :
                              GT(Times4(data.rows[i][GROWTH]), pdrb_median)}),
               Cardinality({i \in 1..Len(data.rows) :
                              LT(Times4(data.rows[i][DENSITY]), qris_median)})>>]
  ELSE [clustering_patterns |-> <<>>]

(* _perform_statistical_analysis, for one outcome rp of correlate: an     *)
(* exception anywhere in the try block leaves what stats held so far,     *)
(* plus the error                                                         *)
perform_statistical_analysis(data, rp) ==
  IF ~(RequiredCols \subseteq data.columns)
  THEN [warning |-> "Required metrics not available in demonstration data"]
  ELSE IF rp = ImportFailed
  THEN [error |-> "Statistical analysis failed"]
  ELSE [correlation_analysis |->
          [pearson_r |-> rp[1],
           p_value |-> rp[2],
           interpretation |->
             interpret_correlation(rp[1], rp[2], Len(data.rows)),
           statistical_significance |->
             IF LT(rp[2], Num(5)) THEN "SIGNIFICANT" ELSE "NOT SIGNIFICANT",
           sample_size_note |-> Len(data.rows)],
        quadrant_analysis |-> perform_quadrant_analysis(data),
        trend_analysis |-> analyze_regional_trends(data)]

(* _identify_opportunities: reads the quadrant analysis stored in         *)
(* self.analysis_results, that is the one of the previous run             *)
identify_opportunities(stored) ==
  LET quadrant_data ==
        IF stored.present
             /\ "quadrant_analysis" \in DOMAIN stored.statistical_analysis
        THEN stored.statistical_analysis.quadrant_analysis.province_details
        ELSE <<>>
      gaps(d) == d.quadrant = "OPPORTUNITY_GAPS"
      chosen == SelectSeq(quadrant_data, gaps)
  IN  [high_impact_regions |-> [i \in 1..Len(chosen) |-> chosen[i].province]]

(* _summarize_data (the adoption range is left out) *)
summarize_data(data) ==
  [total_provinces |-> Len(data.rows),
   data_quality_assessment |->
     IF Len(data.rows) < 10 THEN "DEMONSTRATION" ELSE "PRODUCTION_READY",
   key_metrics_available |-> data.columns,
   statistical_power_rating |-> calculate_statistical_power(data)]

(* analyze_regional_dynamics: <<return value, self.analysis_results>> *)
analyze_regional_dynamics(data, stored, rp) ==
  IF ~data.loaded \/ Len(data.rows) < 2
  THEN <<[error |-> "Insufficient data for analysis"], stored>>
  ELSE
    LET results ==
          [present |-> TRUE,
           data_summary |-> summarize_data(data),
           statistical_analysis |-> perform_statistical_analysis(data, rp),
           opportunity_identification |-> identify_opportunities(stored),
           risk_assessment |-> [small_sample |-> Len(data.rows) < 10],
           methodological_notes |->
             [data_points |-> Len(data.rows),
              power_warning |-> Len(data.rows) < 20]]
    IN  <<results, results>>

----------------------------------------------------------------------------
(* generate_policy_recommendations: the two parts of the result that      *)
(* depend on self.analysis_results                                        *)
generate_policy_recommendations(stored) ==
  LET stats == IF stored.present THEN stored.statistical_analysis
               ELSE [none |-> TRUE]
      not_significant ==
        /\ "correlation_analysis" \in DOMAIN stats
        /\ stats.correlation_analysis.statistical_significance
             = "NOT SIGNIFICANT"
      regions == IF stored.present
                 THEN stored.opportunity_identification.high_impact_regions
                 ELSE <<>>
  IN  [regional_strategies |->
         IF regions # <<>>
         THEN <<"Prioritize campaign resources for ", Len(regions),
                " high-impact regions">>
         ELSE <<>>] @@
      (IF not_significant
       THEN [research_priorities |->
               "Investigate non-economic drivers of QRIS adoption"]
       ELSE <<>>)

(* an uncaught exception leaves the method *)
RaisedError(name) == [raised |-> name]

(* _prepare_dashboard_data *)
prepare_dashboard_data(data, stored) ==
  IF ~data.loaded THEN [error |-> "No data available"]
  ELSE
    LET stats == IF stored.present THEN stored.statistical_analysis
                 ELSE [none |-> TRUE]
    IN  [regional_metrics |-> data.rows,
         analysis_summary |->
           [total_provinces |-> Len(data.rows),
            statistical_power |-> calculate_statistical_power(data)]] @@
        (IF "quadrant_analysis" \in DOMAIN stats
         THEN [quadrant_data |-> stats.quadrant_analysis] ELSE <<>>) @@
        (IF "correlation_analysis" \in DOMAIN stats
         THEN [correlation_data |-> stats.correlation_analysis] ELSE <<>>)

(* export_results: _generate_executive_summary evaluates                  *)
(* len(self.regional_data), a TypeError when no dataset is loaded; the    *)
(* constant texts and the written file are left out                       *)
export_results(source, data, stored) ==
  IF ~data.loaded THEN RaisedError("TypeError")
  ELSE [metadata |->
          [data_source |-> source, provinces_analyzed |-> Len(data.rows)],
        executive_summary |-> [key_findings |-> Len(data.rows)],
        dashboard_data |-> prepare_dashboard_data(data, stored),
        presentation_ready |->
          [provinces_analyzed |-> Len(data.rows),
           statistical_power |-> calculate_statistical_power(data)]]

(* print_final_report: prints len(self.regional_data) and the power *)
print_final_report(data) ==
  IF ~data.loaded THEN RaisedError("TypeError") ELSE [returned |-> "None"]

----------------------------------------------------------------------------

Init ==
  /\ data_source \in DataSources
  /\ regional_data = NoData
  /\ analysis_results = NoResults
  /\ monitor = Idle
  /\ ret = NoCall

LoadData ==
  \E custom_data_path \in BOOLEAN, file \in FileStates :
    LET out == load_data(data_source, regional_data, custom_data_path, file)
    IN  /\ ret' = [call |-> "load_data", value |-> out[1]]
        /\ regional_data' = out[2]
        /\ UNCHANGED <<data_source, analysis_results, monitor>>

(* Variant: the analysis drops the rows with a missing metric from the    *)
(* stored dataset.                                                        *)
AnalyzeRegionalDynamics_dropna ==
  \E rp \in {<<NaN, NaN>>} :
    LET out == analyze_regional_dynamics(regional_data, analysis_results, rp)
        keep(row) == IsNum(row[DENSITY]) /\ IsNum(row[GROWTH])
    IN  /\ ret' = [call |-> "analyze_regional_dynamics", value |-> out[1]]
        /\ analysis_results' = out[2]
        /\ regional_data' =
             [regional_data EXCEPT !.rows = SelectSeq(@, keep)]
        /\ UNCHANGED <<data_source, monitor>>

AnalyzeRegionalDynamics ==
  \E rp \in IF regional_data.loaded /\ Len(regional_data.rows) >= 2
               /\ RequiredCols \subseteq regional_data.columns
            THEN correlate(Column(regional_data, DENSITY),
                           Column(regional_data, GROWTH))
            ELSE {<<NaN, NaN>>} :
    LET out == analyze_regional_dynamics(regional_data, analysis_results, rp)
    IN  /\ ret' = [call |-> "analyze_regional_dynamics", value |-> out[1]]
        /\ analysis_results' = out[2]
        /\ UNCHANGED <<data_source, regional_data, monitor>>

(* the whole of monitor_market_sentiment, its five requests having the    *)
(* same outcome                                                           *)
MonitorMarketSentiment ==
  \E response \in Responses :
    /\ ret' = [call |-> "monitor_market_sentiment",
               value |-> monitor_market_sentiment(
                           [i \in 1..Len(PillarOrder) |-> response])]
    /\ UNCHANGED <<data_source, regional_data, analysis_results, monitor>>

GeneratePolicyRecommendations ==
  /\ ret' = [call |-> "generate_policy_recommendations",
             value |-> generate_policy_recommendations(analysis_results)]
  /\ UNCHANGED <<data_source, regional_data, analysis_results, monitor>>

ExportResults ==
  /\ ret' = [call |-> "export_results",
             value |-> export_results(data_source, regional_data,
                                      analysis_results)]
  /\ UNCHANGED <<data_source, regional_data, analysis_results, monitor>>

PrintFinalReport ==
  /\ ret' = [call |-> "print_final_report",
             value |-> print_final_report(regional_data)]
  /\ UNCHANGED <<data_source, regional_data, analysis_results, monitor>>

Next ==
  \/ LoadData
  \/ AnalyzeRegionalDynamics
  \/ MonitorMarketSentiment
  \/ GeneratePolicyRecommendations
  \/ ExportResults
  \/ PrintFinalReport

Spec == Init /\ [][Next]_vars

----------------------------------------------------------------------------
(* Properties of the correlation interpretation (SpecFn). *)

Interpreted == ret.call = "_interpret_correlation"

PRELIMINARY == "PRELIMINARY: Requires full provincial dataset (n="

NOT_SIGNIFICANT ==
  "No statistically significant relationship at 95% confidence"

(* C6: for n < 10 the interpretation is the PRELIMINARY label, whatever   *)
(* r and p are (r = 1.0 on 4 records included).                           *)
C6_PreliminaryBelowTen ==
  (Interpreted /\ ret.args[3] < 10) =>
    ret.value = <<PRELIMINARY, ret.args[3], " < 20 minimum)">>

C6_Witness ==
  /\ Interpreted
  /\ ret.args[1] = Num(100) /\ ret.args[2] = Num(0) /\ ret.args[3] = 4
  /\ ret.value[1] = PRELIMINARY

(* C7 as stated: for n >= 10 the label is not-significant when p >= 0.05, *)
(* and otherwise (p < 0.05) r > 0.7 strong positive, 0.3 < r <= 0.7 moderate *)
(* positive, -0.3 <= r <= 0.3 weak/none, -0.7 <= r < -0.3 moderate        *)
(* negative, r < -0.7 strong negative.                                    *)
C7_BandsAsStated ==
  (Interpreted /\ ret.args[3] >= 10) =>
    LET r == ret.args[1]
        p == ret.args[2]
        label == ret.value[1]
    IN  /\ GE(p, Num(5)) => label = NOT_SIGNIFICANT
        /\ (LT(p, Num(5)) /\ IsNum(r)) =>
             /\ r[1] > 70 => label = "Strong positive coupling"
             /\ (30 < r[1] /\ r[1] <= 70) =>
                  label = "Moderate positive relationship"
             /\ (0 - 30 <= r[1] /\ r[1] <= 30) =>
                  label = "Weak or no linear relationship"
             /\ (0 - 70 <= r[1] /\ r[1] < 0 - 30) =>
                  label = "Moderate negative relationship"
             /\ r[1] < 0 - 70 => label = "Strong negative relationship"

(* C7 amended: the lower bands are open above and closed below:           *)
(* -0.3 < r <= 0.3 weak/none, -0.7 < r <= -0.3 moderate negative,         *)
(* r <= -0.7 strong negative (r = -0.3 is moderate negative and r = -0.7  *)
(* is strong negative); the rest as stated.                               *)
C7_BandsHalfOpen ==
  (Interpreted /\ ret.args[3] >= 10) =>
    LET r == ret.args[1]
        p == ret.args[2]
        label == ret.value[1]
    IN  /\ Len(ret.value) = 1
        /\ GE(p, Num(5)) => label = NOT_SIGNIFICANT
        /\ (LT(p, Num(5)) /\ IsNum(r)) =>
             /\ r[1] > 70 => label = "Strong positive coupling"
             /\ (30 < r[1] /\ r[1] <= 70) =>
                  label = "Moderate positive relationship"
             /\ (0 - 30 < r[1] /\ r[1] <= 30) =>
                  label = "Weak or no linear relationship"
             /\ (0 - 70 < r[1] /\ r[1] <= 0 - 30) =>
                  label = "Moderate negative relationship"
             /\ r[1] <= 0 - 70 => label = "Strong negative relationship"

(* a significant r = -0.3 on 10 records is read as moderate negative *)
C7_Witness ==
  /\ Interpreted
  /\ ret.args[1] = Num(0 - 30) /\ ret.args[2] = Num(4) /\ ret.args[3] = 10
  /\ ret.value = <<"Moderate negative relationship">>

----------------------------------------------------------------------------
(* Properties of the pillar risk label (SpecFn). *)

(* keyword occurs, ignoring case, in the title of one of the articles *)
OccursIn(keyword, articles) ==
  \E i \in DOMAIN articles :
    /\ articles[i].has_title
    /\ \E off \in 0..(Len(articles[i].title) - Len(keyword)) :
         \A j \in 1..Len(keyword) :
           LowerChar(articles[i].title[off + j]) = keyword[j]

KeywordsOf(pillar) ==
  IF pillar \in DOMAIN risk_keywords THEN risk_keywords[pillar] ELSE {}

(* C9: for every pillar and headline list the label is HIGH when at least *)
(* 3 keywords of the pillar's set occur in the headlines ignoring case,   *)
(* MEDIUM when 1 or 2 occur, LOW when none occurs; a keyword counts once. *)
C9_RiskByKeywordCount ==
  ret.call = "_assess_pillar_risk" =>
    LET found == {k \in KeywordsOf(ret.args[2]) : OccursIn(k, ret.args[1])}
    IN  /\ Cardinality(found) >= 3 => ret.value = "HIGH"
        /\ Cardinality(found) \in {1, 2} => ret.value = "MEDIUM"
        /\ Cardinality(found) = 0 => ret.value = "LOW"

(* the fraud scenario: three headlines holding all five fraud keywords *)
C9_Witness ==
  /\ ret.call = "_assess_pillar_risk"
  /\ ret.args[2] = "RISK_FRAUD"
  /\ ret.args[1] =
       <<Article(<<"W", "a", "s", "p", "a", "d", "a", " ", "P", "e", "n", "i", "p",
                 "u", "a", "n", " ", "Q", "R", "I", "S", " ", "m", "a", "r", "a",
                 "k">>),
         Article(<<"K", "o", "r", "b", "a", "n", " ", "l", "a", "p", "o", "r", " ",
                 "k", "e", " ", "p", "o", "l", "i", "s", "i">>),
         Article(<<"M", "o", "d", "u", "s", " ", "s", "c", "a", "m", " ", "b", "a",
                 "r", "u">>)>>
  /\ ret.value = "HIGH"

----------------------------------------------------------------------------
(* Properties of the response tier (SpecFn). *)

(* C10: the tier is "no action" for 0 articles, "standard monitoring" for *)
(* 1 or 2, "enhanced monitoring" for 3 to 5, "immediate attention" above  *)
(* 5; the action team only appears in the text after the tier.            *)
C10_TierByCount ==
  ret.call = "_generate_response" =>
    LET action_team == ret.args[1]
        article_count == ret.args[2]
    IN  /\ article_count = 0 =>
             ret.value = <<"No action required - continue monitoring">>
        /\ article_count \in {1, 2} =>
             ret.value = <<"Standard monitoring by ", action_team>>
        /\ article_count \in 3..5 =>
             ret.value = <<"Enhanced monitoring recommended - ", action_team,
                           " should review">>
        /\ article_count > 5 =>
             ret.value = <<"Immediate attention required - ", action_team,
                           " should prepare response">>

C10_Witness ==
  /\ ret.call = "_generate_response"
  /\ ret.args[2] = 7
  /\ ret.value[1] = "Immediate attention required - "

----------------------------------------------------------------------------
(* Properties of monitor_market_sentiment (SpecMonitor, SpecMonitorLive). *)

(* the findings written so far by the running call, or those returned *)
FindingsSoFar ==
  IF monitor.pc # "idle" THEN monitor.findings
  ELSE IF ret.call = "monitor_market_sentiment" THEN ret.value.findings
  ELSE <<>>

(* a finding written for a request that failed *)
Failed(finding) == "error" \in DOMAIN finding

(* C11: whenever the request of a pillar fails (it raises, or the status  *)
(* is not 200), the finding of that pillar carries the error and the risk *)
(* level of a pillar without articles, LOW.                               *)
C11_FailureIsLowRisk ==
  \A i \in 1..Len(FindingsSoFar) :
    LET pillar == FindingsSoFar[i][1]
        finding == FindingsSoFar[i][2]
    IN  Failed(finding) =>
          finding.risk_level = assess_pillar_risk(<<>>, pillar)

(* the blocking calls of a complete pass: a sleep, then the request, for  *)
(* each pillar in definition order                                        *)
FullTrace ==
  [k \in 1..(2 * Len(PillarOrder)) |->
     <<IF k % 2 = 1 THEN "sleep" ELSE "get", PillarOrder[(k + 1) \div 2]>>]

(* C19: the blocking calls of a running call are a prefix of "sleep, get" *)
(* per pillar in definition order; the findings hold one entry for each   *)
(* pillar already requested, in that order, whatever the outcomes were;   *)
(* the call is over only after the five requests, and every call that     *)
(* has started returns, with one findings entry for each of the five      *)
(* pillars.                                                               *)
C19_OnePassOverPillars ==
  /\ [](monitor.pc # "idle" =>
          /\ Len(monitor.trace) <= Len(FullTrace)
          /\ monitor.trace = SubSeq(FullTrace, 1, Len(monitor.trace))
          /\ Len(monitor.findings) = Len(monitor.trace) \div 2
          /\ \A i \in 1..Len(monitor.findings) :
               monitor.findings[i][1] = PillarOrder[i]
          /\ (monitor.pc = "return" => monitor.trace = FullTrace))
  /\ [](ret.call = "monitor_market_sentiment" =>
          /\ Len(ret.value.findings) = Len(PillarOrder)
          /\ \A i \in 1..Len(PillarOrder) :
               ret.value.findings[i][1] = PillarOrder[i])
  /\ (monitor.pc # "idle" ~>
        (monitor.pc = "idle" /\ ret.call = "monitor_market_sentiment"))

(* a call has returned in which the first request raised, the second got  *)
(* a status other than 200 and the last one succeeded                     *)
C19_Witness ==
  /\ ret.call = "monitor_market_sentiment"
  /\ ret.value.findings[1][2].risk_level = "MONITORING_FAILED"
  /\ ret.value.findings[2][2].risk_level = "UNKNOWN"
  /\ ~Failed(ret.value.findings[5][2])

----------------------------------------------------------------------------
(* Properties of load_data and analyze_regional_dynamics (Spec). *)

(* the last call was analyze_regional_dynamics and it returned results *)
Analyzed ==
  /\ ret.call = "analyze_regional_dynamics"
  /\ "statistical_analysis" \in DOMAIN ret.value

(* C12: analyze_regional_dynamics called with no dataset, or with fewer   *)
(* than 2 records having both metrics, returns an error outcome without   *)
(* correlation result and leaves analysis_results as it was.              *)
C12_FewQualifyingIsError ==
  [][(/\ ret'.call = "analyze_regional_dynamics"
      /\ \/ ~regional_data.loaded
         \/ Cardinality(Qualifying(regional_data)) < 2)
     => /\ "error" \in DOMAIN ret'.value
        /\ ~("statistical_analysis" \in DOMAIN ret'.value)
        /\ analysis_results' = analysis_results]_vars

(* C13: a record with a missing metric takes no part in the statistics:   *)
(* the sample size of the correlation is the number of records with both  *)
(* metrics, the thresholds are the quartiles of those records, and only   *)
(* those records get a quadrant.                                          *)
C13_MissingRecordsExcluded ==
  (Analyzed /\ "correlation_analysis" \in DOMAIN ret.value.statistical_analysis)
  =>
    LET stats == ret.value.statistical_analysis
        kept == Qualifying(regional_data)
    IN  /\ stats.correlation_analysis.sample_size_note = Cardinality(kept)
        /\ stats.quadrant_analysis.kind = "ok" =>
             /\ {d.province :
                   d \in {stats.quadrant_analysis.province_details[i] :
                            i \in DOMAIN stats.quadrant_analysis.province_details}}
                  = kept
             /\ stats.quadrant_analysis.thresholds =
                  <<quantile(QualifyingColumn(regional_data, DENSITY), 1),
                    quantile(QualifyingColumn(regional_data, DENSITY), 3),
                    quantile(QualifyingColumn(regional_data, GROWTH), 1),
                    quantile(QualifyingColumn(regional_data, GROWTH), 3)>>

(* the outcome of the statistical analysis of the last call: the stats    *)
(* dict, or the error returned in its place                               *)
StatisticalOutcome ==
  IF Analyzed THEN ret.value.statistical_analysis ELSE ret.value

(* C14: when the dataset lacks a required metric column, the outcome of   *)
(* the statistical analysis is an error, without correlation, quadrant or *)
(* trend analysis.                                                        *)
C14_MissingColumnIsError ==
  (/\ ret.call = "analyze_regional_dynamics"
   /\ regional_data.loaded
   /\ ~(RequiredCols \subseteq regional_data.columns))
  => /\ "error" \in DOMAIN StatisticalOutcome
     /\ DOMAIN StatisticalOutcome \cap
          {"correlation_analysis", "quadrant_analysis", "trend_analysis"} = {}

(* C15: in one run of the statistical analysis on a dataset with both     *)
(* metric columns, the quadrant analysis has an outcome of its own        *)
(* whether or not the correlation failed, and when the quadrant analysis  *)
(* has no classification the correlation result is kept unless the        *)
(* correlation itself failed.                                             *)
C15_FailuresAreIndependent ==
  (Analyzed /\ RequiredCols \subseteq regional_data.columns) =>
    LET stats == ret.value.statistical_analysis
    IN  /\ "quadrant_analysis" \in DOMAIN stats
        /\ (stats.quadrant_analysis.kind # "ok"
              /\ ~("error" \in DOMAIN stats))
             => "correlation_analysis" \in DOMAIN stats

(* C16: a call of load_data made while no dataset is loaded returns True  *)
(* exactly when it has loaded one.                                        *)
C16_TrueIffLoaded ==
  [][(ret'.call = "load_data" /\ ~regional_data.loaded)
       => (ret'.value = "True" <=> regional_data'.loaded)]_vars

(* the provinces that a quadrant analysis classifies as OPPORTUNITY_GAPS *)
OpportunityGaps(stats) ==
  IF "quadrant_analysis" \in DOMAIN stats
  THEN LET details == stats.quadrant_analysis.province_details
           gaps(d) == d.quadrant = "OPPORTUNITY_GAPS"
           chosen == SelectSeq(details, gaps)
       IN  [i \in 1..Len(chosen) |-> chosen[i].province]
  ELSE <<>>

(* C20: in every result of analyze_regional_dynamics the                  *)
(* high_impact_regions are the provinces that the quadrant analysis of    *)
(* the same result classifies as OPPORTUNITY_GAPS.                        *)
C20_OpportunitiesAreFresh ==
  Analyzed =>
    ret.value.opportunity_identification.high_impact_regions
      = OpportunityGaps(ret.value.statistical_analysis)

Operations ==
  {"analyze_regional_dynamics", "monitor_market_sentiment",
   "generate_policy_recommendations", "export_results",
   "print_final_report"}

(* C17: every call of analyze_regional_dynamics, monitor_market_sentiment,*)
(* generate_policy_recommendations, export_results and                    *)
(* print_final_report leaves the loaded dataset as it was: the same       *)
(* records, in the same order, with the same metric values.               *)
C17_DatasetIsReadOnly ==
  [][ret'.call \in Operations => regional_data' = regional_data]_vars

(* the five operations have run on a loaded dataset with a missing value, *)
(* the export being the last one                                          *)
C17_Witness ==
  /\ ret.call = "export_results"
  /\ "dashboard_data" \in DOMAIN ret.value
  /\ "quadrant_data" \in DOMAIN ret.value.dashboard_data
  /\ Cardinality(Qualifying(regional_data)) < Len(regional_data.rows)

----------------------------------------------------------------------------
(* Repeated runs of the quadrant classifier (SpecQuad). *)

----------------------------------------------------------------------------
(* Reach of the pillar risk levels (SpecFn). *)

(* C21: the pillar of every call of _assess_pillar_risk, whichever of the *)
(* five it is, has a keyword risk set, and some headline list is rated    *)
(* HIGH for it.                                                           *)
C21_EveryPillarCanBeHigh ==
  ret.call = "_assess_pillar_risk" =>
    LET pillar == ret.args[2]
    IN  /\ pillar \in DOMAIN risk_keywords
        /\ \E articles \in ArticleLists :
             assess_pillar_risk(articles, pillar) = "HIGH"

----------------------------------------------------------------------------
(* export_results in every state of the optimizer (Spec). *)

(* C22: export_results never raises; without a dataset it reports         *)
(* provinces_analyzed = 0, and before any analysis its dashboard data     *)
(* hold neither quadrant nor correlation data.                            *)
C22_ExportInAnyState ==
  ret.call = "export_results" =>
    /\ ~("raised" \in DOMAIN ret.value)
    /\ ~regional_data.loaded => ret.value.metadata.provinces_analyzed = 0
    /\ ~analysis_results.present =>
         DOMAIN ret.value.dashboard_data
           \cap {"quadrant_data", "correlation_data"} = {}

====
